---- MODULE Spec2Model ----
(***************************************************************************)
(* Model of distributed/diagnostics.py: the dependency closure             *)
(* (dependent_keys), the Progress scheduler plugin and its TextProgressBar *)
(* renderer subclass.                                                      *)
(*                                                                         *)
(* Python values are written as strings: "None" is None, "True" is True,   *)
(* "" is the empty string.  Before Progress.__init__ has run the tracker's *)
(* attributes do not exist; the model keeps them at their placeholder      *)
(* values and pc = "new" tells that state apart.                           *)
(***************************************************************************)
EXTENDS Integers, FiniteSets, Sequences, TLC

\* ---------------------------------------------------------------- bounds
MaxEdges == 2
MaxMarks == 2

\* Task keys (those of the linear-chain scenario) and worker names.
Keys == {"a", "b", "c"}
Workers == {"w1"}

\* Values handed to stop()/task_erred() as the exception argument.
PyNone == "None"
PyTrue == "True"
ErrorValues == {"", "ZeroDivisionError"}

VARIABLES
    \* arguments of bare dependent_keys calls; dk_out maps each value of
    \* complete= tried so far to the set returned
    dk_keys, who_has, processing, stacks, dependencies, dk_out,
    \* the Progress object and the scheduler fields it touches
    pc, cls, keys, all_keys, status, diagnostics, exceptions_blame,
    _running, _timer,
    \* record of the calls made on the tracker: the method called last; the
    \* constructor's keys argument, the closure of those targets in the
    \* scheduler state the constructor saw, and whether that state had every
    \* target satisfied; the task_finished calls made while no other method
    \* has been called
    call, targets, closure0, presatisfied, fin,
    \* the wait for the targets at the head of Progress.__init__: where the
    \* loop stands, centiseconds since `start`, scheduler.dask and
    \* scheduler.in_play as last read, and the keys the ValueError names
    wait, elapsed, dask, in_play, raised,
    \* MultiProgress: self.func (NoFunc before it is assigned) and which of
    \* keys, all_keys have been regrouped into buckets
    func, grouped,
    \* progress(): whether the call has returned
    returned,
    \* the constructor step by step: the thread that called it, how far it has
    \* got, whether f is queued on the loop, whether sync's completion signal
    \* is set, the threads that have run f, the attribute writes made since the
    \* plugin was registered (thread, attribute), and whether a callback raised
    caller_thread, cpc, f_posted, f_done, f_threads, writes, cb_failed

dkvars == <<dk_keys, who_has, processing, stacks, dependencies, dk_out>>
trvars == <<pc, cls, keys, all_keys, status, diagnostics, exceptions_blame,
            _running, _timer, call, targets, closure0, presatisfied, fin>>
waitvars == <<wait, elapsed, dask, in_play, raised>>
thvars == <<caller_thread, cpc, f_posted, f_done, f_threads, writes, cb_failed>>
xvars == <<waitvars, func, grouped, returned, thvars>>
vars == <<dkvars, trvars, xvars>>

\* ------------------------------------------------------ scheduler snapshots
\* A satisfied mark: <<key, kind>>.  "held" gives the key a non-empty who_has
\* entry, "lost" an empty one, "processing"/"stacks" put it in that collection.
MarkKinds == {"held", "lost", "processing", "stacks"}

DependencyMaps ==
    { [k \in Keys |-> {d \in Keys : <<k, d>> \in E}] :
        E \in {X \in SUBSET (Keys \X Keys) : Cardinality(X) <= MaxEdges} }

MarkSets ==
    { M \in SUBSET (Keys \X MarkKinds) :
        /\ Cardinality(M) <= MaxMarks
        /\ \A k \in Keys : ~(<<k, "held">> \in M /\ <<k, "lost">> \in M) }

WhoHasOf(M) ==
    [k \in {x \in Keys : <<x, "held">> \in M \/ <<x, "lost">> \in M} |->
        IF <<k, "held">> \in M THEN Workers ELSE {}]

ProcessingOf(M) == {k \in Keys : <<k, "processing">> \in M}

StacksOf(M) == {k \in Keys : <<k, "stacks">> \in M}

\* ------------------------------------------------------------ dependent_keys
\* list(some_set): the set's elements in some order.
RECURSIVE SetToSeq(_)
SetToSeq(S) ==
    IF S = {} THEN <<>>
    ELSE LET x == CHOOSE y \in S : TRUE IN <<x>> \o SetToSeq(S \ {x})

\* Variant: tests `key in who_has` instead of the truth of who_has.get(key).
IsSatisfied_keyInWhoHas(key, wh, proc, stk) ==
    \/ key \in DOMAIN wh
    \/ key \in proc
    \/ key \in stk

\* who_has.get(key) or key in processing or key in stacks
IsSatisfied(key, wh, proc, stk) ==
    \/ (key \in DOMAIN wh /\ wh[key] # {})
    \/ key \in proc
    \/ key \in stk

\* dependencies.get(key, [])
DepsGet(deps, key) == IF key \in DOMAIN deps THEN deps[key] ELSE {}

RECURSIVE dk_loop(_, _, _, _, _, _, _)

\* Variant: the satisfied test is made whatever complete= says.
RECURSIVE dk_loop_ignoresComplete(_, _, _, _, _, _, _)
dk_loop_ignoresComplete(stack, out, wh, proc, stk, deps, complete) ==
    IF stack = <<>> THEN out
    ELSE LET key == stack[Len(stack)]
             rest == SubSeq(stack, 1, Len(stack) - 1)
         IN IF key \in out
              THEN dk_loop_ignoresComplete(rest, out, wh, proc, stk, deps, complete)
            ELSE IF IsSatisfied(key, wh, proc, stk)
              THEN dk_loop_ignoresComplete(rest, out, wh, proc, stk, deps, complete)
            ELSE dk_loop_ignoresComplete(rest \o SetToSeq(DepsGet(deps, key)),
                                         out \cup {key}, wh, proc, stk, deps, complete)

\* The while loop of dependent_keys: stack is popped from its end.
dk_loop(stack, out, wh, proc, stk, deps, complete) ==
    IF stack = <<>> THEN out
    ELSE LET key == stack[Len(stack)]
             rest == SubSeq(stack, 1, Len(stack) - 1)
         IN IF key \in out
              THEN dk_loop(rest, out, wh, proc, stk, deps, complete)
            ELSE IF ~complete /\ IsSatisfied(key, wh, proc, stk)
              THEN dk_loop(rest, out, wh, proc, stk, deps, complete)
            ELSE dk_loop(rest \o SetToSeq(DepsGet(deps, key)), out \cup {key},
                         wh, proc, stk, deps, complete)

dependent_keys(ks, wh, proc, stk, deps, complete) ==
    dk_loop(SetToSeq(ks), {}, wh, proc, stk, deps, complete)

\* ------------------------------------------- specification: dependent_keys
\* No tracker has been constructed.
TrackerIdle ==
    /\ pc = "new" /\ cls = "Progress" /\ keys = {} /\ all_keys = {}
    /\ status = PyNone /\ diagnostics = {} /\ exceptions_blame = {}
    /\ _running = FALSE /\ _timer = "None"
    /\ call = "none" /\ targets = {} /\ closure0 = {} /\ presatisfied = FALSE
    /\ fin = [only |-> TRUE, F |-> {}]

\* The label function of a tracker that has none yet.
NoFunc == <<>>

\* No label function is set, nothing is grouped, no progress() call is over.
RestIdle ==
    /\ func = NoFunc /\ grouped = {}
    /\ returned = FALSE
    /\ caller_thread = "loop" /\ cpc = "idle" /\ f_posted = FALSE /\ f_done = FALSE
    /\ f_threads = <<>> /\ writes = {} /\ cb_failed = FALSE

\* The constructor's wait loop is over, nothing else is going on.
OutsideIdle ==
    /\ wait = "found" /\ elapsed = 0 /\ dask = {} /\ in_play = {} /\ raised = {}
    /\ RestIdle

InitDK ==
    /\ dk_keys \in SUBSET Keys
    /\ \E M \in MarkSets :
         /\ who_has = WhoHasOf(M)
         /\ processing = ProcessingOf(M)
         /\ stacks = StacksOf(M)
    /\ dependencies \in DependencyMaps
    /\ dk_out = [c \in {} |-> {}]
    /\ TrackerIdle
    /\ OutsideIdle

CallDependentKeys(complete) ==
    /\ complete \notin DOMAIN dk_out
    /\ dk_out' = [c \in DOMAIN dk_out \cup {complete} |->
                    IF c = complete
                    THEN dependent_keys(dk_keys, who_has, processing, stacks,
                                        dependencies, complete)
                    ELSE dk_out[c]]
    /\ UNCHANGED <<dk_keys, who_has, processing, stacks, dependencies>>
    /\ UNCHANGED <<trvars, xvars>>

NextDK == \E complete \in BOOLEAN : CallDependentKeys(complete)

SpecDK == InitDK /\ [][NextDK]_vars

\* ------------------------------------------------------------------ Progress
Classes == {"Progress", "TextProgressBar"}
StopArgs == {PyNone, PyTrue}
Terminal == {"finished", "error"}

\* Python's truth test, as in `if exception:`.
Truthy(x) == x \notin {PyNone, ""}

\* Variant: the closure is asked for with complete=True.
f_keys_complete(ks, wh, proc, stk, waiting) ==
    dependent_keys(ks, wh, proc, stk, waiting, TRUE)

\* f() inside __init__: self.keys = dependent_keys(keys, who_has, processing,
\* stacks, waiting)
f_keys(ks, wh, proc, stk, waiting) == dependent_keys(ks, wh, proc, stk, waiting, FALSE)

\* Variant: all_keys is built from the targets alone.
f_all_keys_targetsOnly(pending, ks) == ks

\* f() inside __init__: self.all_keys = self.keys.copy(); self.all_keys.update(keys)
f_all_keys(pending, ks) == pending \cup ks

\* Variant: stop() leaves the plugin in scheduler.diagnostics.
DiagnosticsAfterStop_keepsPlugin(diag) == diag

\* stop(): if self in self.scheduler.diagnostics: remove it
DiagnosticsAfterStop(diag) == diag \ {"self"}

\* stop(): status is 'error' if exception is true, 'finished' otherwise
StatusAfterStop(exception) == IF Truthy(exception) THEN "error" ELSE "finished"

\* TextProgressBar._start: start the timer thread unless one is running.
\* Progress._start does nothing.
RunningAfter_start(c, running) == IF c = "TextProgressBar" THEN TRUE ELSE running

TimerAfter_start(c, running, timer) ==
    IF c = "TextProgressBar" /\ ~running THEN "alive" ELSE timer

\* TextProgressBar.stop after Progress.stop: clear _running and join the timer.
RunningAfterStop(c, running) == IF c = "TextProgressBar" THEN FALSE ELSE running

TimerAfterStop(c, running, timer) ==
    IF c = "TextProgressBar" /\ running THEN "joined" ELSE timer

\* self.stop(exception, key) reached with _running = running, _timer = timer.
stop_from(exception, running, timer) ==
    /\ diagnostics' = DiagnosticsAfterStop(diagnostics)
    /\ status' = StatusAfterStop(exception)
    /\ _running' = RunningAfterStop(cls, running)
    /\ _timer' = TimerAfterStop(cls, running, timer)

\* Keys a scheduler state counts as satisfied, in the words of the contract: a
\* non-empty who_has entry, or in processing, or in stacks.
SatisfiedIn(wh, proc, stk) ==
    {k \in Keys : \/ \E w \in Workers : k \in DOMAIN wh /\ w \in wh[k]
                  \/ k \in proc
                  \/ k \in stk}

\* Progress.__init__ for an object of class c, once every target is in
\* scheduler.dask: f() registers the plugin and computes the two sets, then
\* status is set to None.
Progress__init__(c, ks, wh, proc, stk, waiting) ==
    /\ pc = "new"
    /\ pc' = "constructed"
    /\ cls' = c
    /\ _running' = FALSE
    /\ _timer' = "None"
    /\ diagnostics' = diagnostics \cup {"self"}
    /\ keys' = f_keys(ks, wh, proc, stk, waiting)
    /\ all_keys' = f_all_keys(keys', ks)
    /\ status' = PyNone
    /\ call' = "__init__"
    /\ targets' = ks
    /\ closure0' = dependent_keys(ks, wh, proc, stk, waiting, FALSE)
    /\ presatisfied' = (ks # {} /\ ks \subseteq SatisfiedIn(wh, proc, stk))
    /\ fin' = [only |-> TRUE, F |-> {}]
    /\ UNCHANGED exceptions_blame

\* The constructor called with targets and a scheduler in any snapshot state.
Construct ==
    /\ pc = "new"
    /\ \E c \in Classes, ks \in SUBSET Keys, M \in MarkSets, waiting \in DependencyMaps :
         Progress__init__(c, ks, WhoHasOf(M), ProcessingOf(M), StacksOf(M), waiting)
    /\ UNCHANGED <<dkvars, xvars>>

NotOnlyFinished == [only |-> FALSE, F |-> {}]

\* Variant: start() tests that some pending key is blamed, not all of them.
AllBlamed_any(pending, blame) == \E k \in pending : k \in blame

\* start(): all(k in self.scheduler.exceptions_blame for k in self.keys)
AllBlamed(pending, blame) == \A k \in pending : k \in blame

\* start() called while scheduler.exceptions_blame holds the keys of blame.
start(blame) ==
    /\ pc = "constructed"
    /\ exceptions_blame' = blame
    /\ LET r1 == RunningAfter_start(cls, _running)
           t1 == TimerAfter_start(cls, _running, _timer)
       IN IF keys = {}
            THEN stop_from(PyNone, r1, t1)
          ELSE IF AllBlamed(keys, blame)
            THEN stop_from(PyTrue, r1, t1)
          ELSE /\ _running' = r1
               /\ _timer' = t1
               /\ UNCHANGED <<status, diagnostics>>
    /\ call' = "start"
    /\ fin' = NotOnlyFinished
    /\ UNCHANGED <<pc, cls, keys, all_keys, targets, closure0, presatisfied>>
    /\ UNCHANGED <<dkvars, xvars>>

\* Variant: the emptiness test is made on the pending set before the removal.
StopsAfterFinished_testsBefore(before, after) == before = {}

\* task_finished: `if not self.keys: self.stop()` after the removal
StopsAfterFinished(before, after) == after = {}

task_finished(key) ==
    /\ pc = "constructed"
    /\ keys' = keys \ {key}
    /\ IF StopsAfterFinished(keys, keys')
         THEN stop_from(PyNone, _running, _timer)
         ELSE UNCHANGED <<status, diagnostics, _running, _timer>>
    /\ call' = "task_finished"
    /\ fin' = IF fin.only THEN [only |-> TRUE, F |-> fin.F \cup {key}] ELSE fin
    /\ UNCHANGED <<pc, cls, all_keys, exceptions_blame, targets, closure0, presatisfied>>
    /\ UNCHANGED <<dkvars, xvars>>

task_erred(key, exception) ==
    /\ pc = "constructed"
    /\ IF key \in all_keys
         THEN stop_from(exception, _running, _timer)
         ELSE UNCHANGED <<status, diagnostics, _running, _timer>>
    /\ call' = "task_erred"
    /\ fin' = NotOnlyFinished
    /\ UNCHANGED <<pc, cls, keys, all_keys, exceptions_blame, targets, closure0, presatisfied>>
    /\ UNCHANGED <<dkvars, xvars>>

stop(exception) ==
    /\ pc = "constructed"
    /\ stop_from(exception, _running, _timer)
    /\ call' = "stop"
    /\ fin' = NotOnlyFinished
    /\ UNCHANGED <<pc, cls, keys, all_keys, exceptions_blame, targets, closure0, presatisfied>>
    /\ UNCHANGED <<dkvars, xvars>>

Calls ==
    \/ \E blame \in SUBSET Keys : start(blame)
    \/ \E key \in Keys : task_finished(key)
    \/ \E key \in Keys, exception \in ErrorValues : task_erred(key, exception)
    \/ \E exception \in StopArgs : stop(exception)

\* ---------------------------------- specification: a tracker and its calls
\* No bare dependent_keys call is under way.
NoBareCall ==
    /\ dk_keys = {} /\ who_has = [k \in {} |-> {}] /\ processing = {} /\ stacks = {}
    /\ dependencies = [k \in {} |-> {}] /\ dk_out = [c \in {} |-> {}]

Init ==
    /\ NoBareCall
    /\ TrackerIdle
    /\ OutsideIdle

Next == Construct \/ Calls

Spec == Init /\ [][Next]_vars

\* --------------------------------------------- properties of dependent_keys
\* Keys the snapshot of the bare call counts as satisfied.
SatisfiedKeys == SatisfiedIn(who_has, processing, stacks)

\* Dependency paths of at most as many keys as there are (a shortest path
\* repeats no key).
DepPaths(deps) ==
    {p \in UNION {[1..n -> Keys] : n \in 1..Cardinality(Keys)} :
        \A i \in 1..(Len(p) - 1) : p[i + 1] \in deps[p[i]]}

\* Keys at the end of a dependency path that starts in T and stays in Good.
ReachableWithin(T, deps, Good) ==
    {k \in Keys : \E p \in DepPaths(deps) :
        /\ p[1] \in T
        /\ p[Len(p)] = k
        /\ \A i \in 1..Len(p) : p[i] \in Good}

Reachable(T, deps) == ReachableWithin(T, deps, Keys)

\* C2: with complete=False dependent_keys returns exactly the keys reachable
\* from the targets along dependency paths all of whose keys are unsatisfied
\* (so no satisfied key, and nothing reached only through one); with
\* complete=True it returns exactly the keys reachable from the targets.
C2_ExactClosure ==
    /\ FALSE \in DOMAIN dk_out =>
          /\ dk_out[FALSE] = ReachableWithin(dk_keys, dependencies, Keys \ SatisfiedKeys)
          /\ dk_out[FALSE] \cap SatisfiedKeys = {}
    /\ TRUE \in DOMAIN dk_out =>
          dk_out[TRUE] = Reachable(dk_keys, dependencies)

\* A call with complete=False has returned for targets that reach a satisfied
\* key through an unsatisfied one, and left that key and what lies behind it out.
C2_Witness ==
    /\ FALSE \in DOMAIN dk_out
    /\ \E t \in dk_keys, s \in SatisfiedKeys, d \in Keys :
         /\ t \notin SatisfiedKeys /\ s \in dependencies[t] /\ d \in dependencies[s]
         /\ Cardinality({t, s, d}) = 3
         /\ t \in dk_out[FALSE] /\ s \notin dk_out[FALSE] /\ d \notin dk_out[FALSE]

\* C3 as stated: computeClosure(T, false) \cup T = computeClosure(T, true) \cap reachable(T).
C3_Original ==
    DOMAIN dk_out = BOOLEAN =>
        dk_out[FALSE] \cup dk_keys = dk_out[TRUE] \cap Reachable(dk_keys, dependencies)

\* C3 amended: computeClosure(T, false) \cup T is a subset of
\* computeClosure(T, true) \cap reachable(T), and the two are equal whenever no
\* key reachable from T is satisfied.
C3_Amended ==
    DOMAIN dk_out = BOOLEAN =>
        LET lhs == dk_out[FALSE] \cup dk_keys
            rhs == dk_out[TRUE] \cap Reachable(dk_keys, dependencies)
        IN /\ lhs \subseteq rhs
           /\ Reachable(dk_keys, dependencies) \cap SatisfiedKeys = {} => lhs = rhs

\* Both calls have returned and a satisfied, non-target key is reachable: the
\* complete=True result holds it, the complete=False result and T do not.
C3_Witness ==
    /\ DOMAIN dk_out = BOOLEAN
    /\ \E s \in SatisfiedKeys \ dk_keys :
         /\ s \in dk_out[TRUE] \cap Reachable(dk_keys, dependencies)
         /\ s \notin dk_out[FALSE] \cup dk_keys

\* ------------------------------------------------ properties of the tracker
\* C1: once status is 'finished' or 'error', no call of task_finished,
\* task_erred, start or stop changes it.
C1_Original == [][(status \in Terminal) => (status' = status)]_vars

\* C4: the pending set keys is a subset of all_keys in every state.
C4_PendingSubset == keys \subseteq all_keys

\* task_finished has removed a key of a closure that is larger than the
\* pending set was at construction.
C4_Witness ==
    /\ pc = "constructed" /\ call = "task_finished"
    /\ keys # {} /\ keys # closure0 /\ closure0 # all_keys

\* C5: after construction all_keys is dependent_keys(targets, snapshot,
\* complete=False) together with the targets (so it holds the targets), keys
\* is that closure, and no later call changes all_keys.
C5_Closure ==
    /\ [](pc = "constructed" =>
            /\ all_keys = closure0 \cup targets
            /\ targets \subseteq all_keys
            /\ call = "__init__" => keys = closure0)
    /\ [][pc = "constructed" => all_keys' = all_keys]_vars

\* A tracker whose closure holds more than its targets, one of which was
\* satisfied, after a call that removed a pending key.
C5_Witness ==
    /\ pc = "constructed" /\ call = "task_finished"
    /\ keys # closure0
    /\ targets \ closure0 # {}
    /\ all_keys \ targets # {}

\* C6: while task_finished is the only method called, the pending set is the
\* initial pending set minus the keys reported, status is not terminal while
\* that set is non-empty, and once a call has been made status is 'finished'
\* exactly when the set is empty.
C6_FinishedOnly ==
    (pc = "constructed" /\ fin.only) =>
        /\ keys = closure0 \ fin.F
        /\ keys # {} => status \notin Terminal
        /\ fin.F # {} => (status = "finished" <=> keys = {})

\* Two pending keys were reported finished, nothing else was called, and the
\* second report emptied the set.
C6_Witness ==
    /\ pc = "constructed" /\ fin.only
    /\ Cardinality(closure0) >= 2 /\ closure0 \subseteq fin.F
    /\ keys = {} /\ status = "finished"

\* C7: task_erred(key, error) with key in all_keys puts the tracker in status
\* 'error', whatever the error value.
C7_Original ==
    [][\A key \in Keys, exception \in ErrorValues :
          (task_erred(key, exception) /\ key \in all_keys) => status' = "error"]_vars

\* C8: when there are targets and every one is satisfied in the snapshot at
\* construction, the pending set is empty after construction, and start()
\* takes the tracker to 'finished' with the pending set empty and without the
\* renderer's timer thread ever having been started.
C8_Original ==
    /\ []((call = "__init__" /\ presatisfied) => keys = {})
    /\ [][(call = "__init__" /\ presatisfied /\ call' = "start") =>
            (status' = "finished" /\ keys' = {} /\ ~_running' /\ _timer' = "None")]_vars

\* C9: start() on a non-terminal tracker with a non-empty pending set makes
\* the status 'error' exactly when every pending key is in exceptions_blame,
\* and otherwise leaves the status non-terminal and the plugin registered.
C9_StartBlame ==
    [][\A blame \in SUBSET Keys :
          (start(blame) /\ status \notin Terminal /\ keys # {}) =>
              /\ status' = "error" <=> keys \subseteq blame
              /\ ~(keys \subseteq blame) =>
                    (status' \notin Terminal /\ "self" \in diagnostics')]_vars

\* start() has just run on a tracker whose two pending keys are both blamed.
C9_Witness ==
    /\ call = "start" /\ Cardinality(keys) >= 2 /\ keys \subseteq exceptions_blame
    /\ status = "error" /\ "self" \notin diagnostics

\* C10: a tracker whose status is 'finished' or 'error' is not in
\* scheduler.diagnostics.
C10_TerminalDeregistered == status \in Terminal => "self" \notin diagnostics

\* A task_finished call has emptied the pending set and stopped the tracker.
C10_Witness ==
    /\ call = "task_finished" /\ closure0 # {} /\ keys = {}
    /\ status = "finished" /\ "self" \notin diagnostics

\* ------------------------- the wait for the targets in Progress.__init__
\* time.sleep(0.01) and `start + 1`, in centiseconds.
SleepCs == 1
BudgetCs == 100
\* How much longer than asked one sleep may take, in centiseconds.
MaxOversleepCs == 1

\* The keys the ValueError names: keys - scheduler.in_play
KeysNotFound(ks, ip) == ks \ ip

\* `while not keys.issubset(scheduler.dask)`
AllInGraph(ks, d) == ks \subseteq d

\* One turn of the wait loop: the test reads scheduler.dask as d; if a target
\* is missing the thread sleeps for dt and, once more than the budget has
\* passed, raises with scheduler.in_play read as ip.
wait_poll(d, ip, dt) ==
    /\ pc = "new" /\ wait = "polling"
    /\ dask' = d
    /\ IF AllInGraph(targets, d)
         THEN /\ wait' = "found"
              /\ elapsed' = 0
              /\ UNCHANGED <<in_play, raised>>
         ELSE /\ elapsed' = elapsed + dt
              /\ IF elapsed' > BudgetCs
                   THEN /\ wait' = "raised"
                        /\ in_play' = ip
                        /\ raised' = KeysNotFound(targets, ip)
                   ELSE UNCHANGED <<wait, in_play, raised>>
    /\ UNCHANGED <<dkvars, trvars, func, grouped, returned, thvars>>

\* The rest of __init__, reached when the loop has found every target.
ConstructFound ==
    /\ pc = "new" /\ wait = "found"
    /\ \E c \in Classes, M \in MarkSets, waiting \in DependencyMaps :
         Progress__init__(c, targets, WhoHasOf(M), ProcessingOf(M), StacksOf(M), waiting)
    /\ UNCHANGED <<dkvars, xvars>>

\* __init__ has been called with a non-empty set of targets and stands at the
\* head of the wait loop. Keys in play are keys of the graph.
InitWait ==
    /\ NoBareCall
    /\ pc = "new" /\ cls = "Progress" /\ keys = {} /\ all_keys = {} /\ status = PyNone
    /\ diagnostics = {} /\ exceptions_blame = {} /\ _running = FALSE /\ _timer = "None"
    /\ call = "none" /\ closure0 = {} /\ presatisfied = FALSE
    /\ fin = [only |-> TRUE, F |-> {}]
    /\ targets \in (SUBSET Keys) \ {{}}
    /\ wait = "polling" /\ elapsed = 0 /\ dask = {} /\ in_play = {} /\ raised = {}
    /\ RestIdle

NextWait ==
    \/ \E d \in SUBSET Keys, dt \in SleepCs..(SleepCs + MaxOversleepCs) :
         \E ip \in SUBSET d : wait_poll(d, ip, dt)
    \/ ConstructFound

SpecWait == InitWait /\ [][NextWait]_vars

\* C11: a construction that gives up does so within the bounded wait, its
\* error names exactly the targets missing from the task graph, and the
\* tracker is not in scheduler.diagnostics; a construction goes on only when
\* no target is missing.
C11_Original ==
    /\ wait = "raised" =>
         /\ raised = targets \ dask
         /\ "self" \notin diagnostics /\ pc = "new"
         /\ elapsed <= BudgetCs + SleepCs + MaxOversleepCs
    /\ (wait = "found" /\ pc = "new") => targets \subseteq dask

\* ------------------------------------------------------------ MultiProgress
Labels == {"x", "y"}

\* The label functions tried: every map of the keys to the labels, and the
\* one key_split is on keys without a hyphen, each key its own label.
LabelFuncs == [Keys -> Labels] \cup {[k \in Keys |-> k]}

\* Variant: a key replaces the list of its label instead of joining it.
groupby_put_overwrites(d, l, x) ==
    [m \in DOMAIN d \cup {l} |-> IF m = l THEN <<x>> ELSE d[m]]

\* groupby: d[func(item)].append(item), the list created on first use
groupby_put(d, l, x) ==
    [m \in DOMAIN d \cup {l} |->
        IF m = l THEN (IF l \in DOMAIN d THEN Append(d[l], x) ELSE <<x>>) ELSE d[m]]

\* groupby(func, seq): the items of seq in lists by label, in order.
RECURSIVE groupby_loop(_, _, _, _)
groupby_loop(fn, seq, i, d) ==
    IF i > Len(seq) THEN d
    ELSE groupby_loop(fn, seq, i + 1, groupby_put(d, fn[seq[i]], seq[i]))

groupby(fn, seq) == groupby_loop(fn, seq, 1, [m \in {} |-> <<>>])

\* valmap(set, d)
valmap_set(d) == [m \in DOMAIN d |-> {d[m][i] : i \in 1..Len(d[m])}]

\* valmap(set, groupby(self.func, S)) for a set S
Regroup(fn, S) == valmap_set(groupby(fn, SetToSeq(S)))

\* MultiProgress.__init__: Progress.__init__, then func is kept and keys and
\* all_keys are regrouped by it.
MultiProgress__init__(ks, wh, proc, stk, waiting, fn) ==
    /\ pc = "new"
    /\ pc' = "constructed"
    /\ cls' = "MultiProgress"
    /\ _running' = FALSE
    /\ _timer' = "None"
    /\ diagnostics' = diagnostics \cup {"self"}
    /\ status' = PyNone
    /\ func' = fn
    /\ LET pending == f_keys(ks, wh, proc, stk, waiting)
       IN /\ keys' = Regroup(fn, pending)
          /\ all_keys' = Regroup(fn, f_all_keys(pending, ks))
          /\ closure0' = pending
    /\ grouped' = {"keys", "all_keys"}
    /\ call' = "__init__"
    /\ targets' = ks
    /\ presatisfied' = (ks # {} /\ ks \subseteq SatisfiedIn(wh, proc, stk))
    /\ UNCHANGED <<exceptions_blame, fin>>

\* Snapshots in which at most one key is marked.
OneMarkSets == {M \in MarkSets : Cardinality(M) <= 1}

ConstructMulti ==
    /\ pc = "new"
    /\ \E ks \in SUBSET Keys, M \in OneMarkSets, waiting \in DependencyMaps, fn \in LabelFuncs :
         MultiProgress__init__(ks, WhoHasOf(M), ProcessingOf(M), StacksOf(M), waiting, fn)
    /\ UNCHANGED <<dkvars, waitvars, returned, thvars>>

\* `s = self.keys.get(self.func(key), None); if s and key in s`
InBucket(d, l, key) == l \in DOMAIN d /\ d[l] # {} /\ key \in d[l]

\* Variant: the tracker stops as soon as one bucket is empty.
MultiStops_anyEmpty(d) == DOMAIN d = {} \/ \E l \in DOMAIN d : d[l] = {}

\* `not self.keys or not any(self.keys.values())`
MultiStops(d) == DOMAIN d = {} \/ ~ \E l \in DOMAIN d : d[l] # {}

\* MultiProgress.task_finished
mp_task_finished(key) ==
    /\ pc = "constructed" /\ cls = "MultiProgress" /\ "keys" \in grouped
    /\ keys' = IF InBucket(keys, func[key], key)
                 THEN [keys EXCEPT ![func[key]] = @ \ {key}]
                 ELSE keys
    /\ IF MultiStops(keys')
         THEN stop_from(PyNone, _running, _timer)
         ELSE UNCHANGED <<status, diagnostics, _running, _timer>>
    /\ call' = "task_finished"
    /\ UNCHANGED <<pc, cls, all_keys, exceptions_blame, targets, closure0, presatisfied, fin>>
    /\ UNCHANGED <<dkvars, xvars>>

\* MultiProgress.task_erred
mp_task_erred(key, exception) ==
    /\ pc = "constructed" /\ cls = "MultiProgress" /\ "all_keys" \in grouped
    /\ IF func[key] \in DOMAIN all_keys /\ key \in all_keys[func[key]]
         THEN stop_from(exception, _running, _timer)
         ELSE UNCHANGED <<status, diagnostics, _running, _timer>>
    /\ call' = "task_erred"
    /\ UNCHANGED <<pc, cls, keys, all_keys, exceptions_blame, targets, closure0, presatisfied, fin>>
    /\ UNCHANGED <<dkvars, xvars>>

\* Progress.start on a MultiProgress: `not self.keys` is true of a dict
\* without labels, and `for k in self.keys` runs over the labels.
mp_start(blame) ==
    /\ pc = "constructed" /\ cls = "MultiProgress" /\ "keys" \in grouped
    /\ exceptions_blame' = blame
    /\ IF DOMAIN keys = {}
         THEN stop_from(PyNone, _running, _timer)
       ELSE IF AllBlamed(DOMAIN keys, blame)
         THEN stop_from(PyTrue, _running, _timer)
       ELSE UNCHANGED <<status, diagnostics, _running, _timer>>
    /\ call' = "start"
    /\ UNCHANGED <<pc, cls, keys, all_keys, targets, closure0, presatisfied, fin>>
    /\ UNCHANGED <<dkvars, xvars>>

\* Progress.stop called on a MultiProgress from outside.
mp_stop(exception) ==
    /\ cls = "MultiProgress"
    /\ stop(exception)

\* What scheduler.exceptions_blame holds when a MultiProgress is started:
\* nothing, one key, or every key.
MultiBlames == {{}, {"a"}, Keys}

NextMulti ==
    \/ ConstructMulti
    \/ \E blame \in MultiBlames : mp_start(blame)
    \/ \E key \in Keys : mp_task_finished(key)
    \/ \E key \in Keys, exception \in ErrorValues : mp_task_erred(key, exception)
    \/ \E exception \in StopArgs : mp_stop(exception)

SpecMulti == Init /\ [][NextMulti]_vars

\* The sizes of the buckets of d, added up.
RECURSIVE SumOfCounts(_, _)
SumOfCounts(d, Ls) ==
    IF Ls = {} THEN 0
    ELSE LET l == CHOOSE m \in Ls : TRUE
         IN Cardinality(d[l]) + SumOfCounts(d, Ls \ {l})

\* The buckets of d split the set S by the label function fn.
GroupsExactly(d, S, fn) ==
    /\ \A l1 \in DOMAIN d, l2 \in DOMAIN d : l1 # l2 => d[l1] \cap d[l2] = {}
    /\ UNION {d[l] : l \in DOMAIN d} = S
    /\ \A k \in S : fn[k] \in DOMAIN d /\ \A l \in DOMAIN d : (k \in d[l]) <=> (l = fn[k])
    /\ SumOfCounts(d, DOMAIN d) = Cardinality(S)

\* C12: for every label function, a constructed MultiProgress has all_keys in
\* pairwise disjoint buckets whose union is the ungrouped all_keys, every key
\* in the bucket of its label and no other, and counts that add up to the
\* ungrouped total; right after construction the same holds of the pending
\* buckets and the ungrouped pending set.
C12_Grouping ==
    (pc = "constructed" /\ cls = "MultiProgress") =>
        /\ GroupsExactly(all_keys, f_all_keys(closure0, targets), func)
        /\ call = "__init__" => GroupsExactly(keys, closure0, func)

\* Right after construction: two buckets, one of them with two keys, and
\* fewer pending keys than keys in all.
C12_Witness ==
    /\ pc = "constructed" /\ cls = "MultiProgress" /\ call = "__init__"
    /\ Cardinality(DOMAIN all_keys) = 2
    /\ \E l \in DOMAIN all_keys : Cardinality(all_keys[l]) = 2
    /\ closure0 # {} /\ closure0 # f_all_keys(closure0, targets)

\* C13: MultiProgress.task_finished(key) takes key out of the bucket of
\* func(key) only and leaves every other bucket as it was, and a tracker that
\* was not finished is finished afterwards exactly when every pending bucket
\* is empty.
C13_OneBucket ==
    [][\A key \in Keys : mp_task_finished(key) =>
          /\ DOMAIN keys' = DOMAIN keys
          /\ \A l \in DOMAIN keys :
               keys'[l] = IF l = func[key] THEN keys[l] \ {key} ELSE keys[l]
          /\ (status # "finished") =>
               ((status' = "finished") <=> (\A l \in DOMAIN keys' : keys'[l] = {}))]_vars

\* The last pending key of a tracker with two pending buckets has just been
\* reported: every bucket is empty and the tracker finished.
C13_Witness ==
    /\ cls = "MultiProgress" /\ call = "task_finished" /\ status = "finished"
    /\ Cardinality(DOMAIN keys) = 2 /\ Cardinality(closure0) >= 2
    /\ \A l \in DOMAIN keys : keys[l] = {}

\* --------------------------------------- progress() on the console
\* bar = TextProgressBar(futures), on the calling thread.
progress_construct ==
    /\ pc = "new"
    /\ \E ks \in SUBSET Keys, M \in MarkSets, waiting \in DependencyMaps :
         Progress__init__("TextProgressBar", ks, WhoHasOf(M), ProcessingOf(M),
                          StacksOf(M), waiting)
    /\ UNCHANGED <<dkvars, xvars>>

\* bar.start(), once: no timer thread has been made yet.
progress_start(blame) ==
    /\ _timer = "None"
    /\ start(blame)

\* The scheduler calls the callbacks of the plugins in scheduler.diagnostics,
\* on its loop thread.
loop_task_finished(key) ==
    /\ "self" \in diagnostics
    /\ task_finished(key)

loop_task_erred(key, exception) ==
    /\ "self" \in diagnostics
    /\ task_erred(key, exception)

\* bar._timer.join() returns: the timer thread has left _timer_func, which it
\* does when it finds _running false.
progress_return ==
    /\ pc = "constructed" /\ _timer = "joined" /\ ~returned
    /\ returned' = TRUE
    /\ UNCHANGED <<dkvars, trvars, waitvars, func, grouped, thvars>>

NextProgress ==
    \/ progress_construct
    \/ \E blame \in SUBSET Keys : progress_start(blame)
    \/ \E key \in Keys : loop_task_finished(key)
    \/ \E key \in Keys, exception \in ErrorValues : loop_task_erred(key, exception)
    \/ progress_return

SpecProgress == Init /\ [][NextProgress]_vars

\* C14: progress() with the text bar does not return while the tracker is not
\* terminal, and a terminal tracker lets it return in every interleaving of the
\* caller, the timer thread and the scheduler's callbacks: the timer thread of
\* a terminal tracker is never left running (its plugin is out of
\* scheduler.diagnostics, so no later callback would stop the timer and the
\* join would wait for ever).
C14_Original ==
    /\ returned => status \in Terminal
    /\ status \in Terminal => _timer # "alive"

\* ------------------- the constructor step by step, callbacks in between
\* Here pc is "constructed" from the moment f has run: the plugin is in
\* scheduler.diagnostics and keys and all_keys exist; cpc tells how far the
\* constructor itself has got.
ThreadClasses == {"Progress", "MultiProgress"}
Threads == {"loop", "other"}

\* Variant: f is called inline whatever the thread.
RunsInline_always(th) == TRUE

\* `scheduler.loop._thread_ident == threading.current_thread().ident`
RunsInline(th) == th = "loop"

\* f(), run by thread th on the snapshot it reads.
f_body(th, ks, wh, proc, stk, waiting) ==
    /\ diagnostics' = diagnostics \cup {"self"}
    /\ keys' = f_keys(ks, wh, proc, stk, waiting)
    /\ all_keys' = f_all_keys(keys', ks)
    /\ f_threads' = Append(f_threads, th)
    /\ writes' = writes \cup {<<th, "keys">>, <<th, "all_keys">>}
    /\ pc' = "constructed"
    /\ call' = "__init__"
    /\ targets' = ks
    /\ closure0' = dependent_keys(ks, wh, proc, stk, waiting, FALSE)
    /\ presatisfied' = (ks # {} /\ ks \subseteq SatisfiedIn(wh, proc, stk))

\* The loop thread is not inside the constructor, so it can run what is
\* queued on it.
LoopFree == caller_thread = "other" \/ cpc = "done"

\* The constructor finds itself on the loop thread and calls f().
ctor_bridge_inline ==
    /\ cpc = "bridge" /\ RunsInline(caller_thread)
    /\ \E ks \in SUBSET Keys, M \in OneMarkSets, waiting \in DependencyMaps :
         f_body(caller_thread, ks, WhoHasOf(M), ProcessingOf(M), StacksOf(M), waiting)
    /\ cpc' = "reset"
    /\ UNCHANGED <<cls, status, exceptions_blame, _running, _timer, fin>>
    /\ UNCHANGED <<dkvars, waitvars, func, grouped, returned>>
    /\ UNCHANGED <<caller_thread, f_posted, f_done, cb_failed>>

\* Otherwise it calls sync(scheduler.loop, f): f is queued on the loop and the
\* calling thread waits for the completion signal.
ctor_bridge_dispatch ==
    /\ cpc = "bridge" /\ ~RunsInline(caller_thread)
    /\ f_posted' = TRUE
    /\ cpc' = "in_sync"
    /\ UNCHANGED <<dkvars, trvars, waitvars, func, grouped, returned>>
    /\ UNCHANGED <<caller_thread, f_done, f_threads, writes, cb_failed>>

\* The loop thread takes f from its queue, runs it and sets the signal. A
\* loop thread that waits inside sync runs nothing.
loop_run_f ==
    /\ f_posted /\ ~(caller_thread = "loop" /\ cpc = "in_sync")
    /\ \E ks \in SUBSET Keys, M \in OneMarkSets, waiting \in DependencyMaps :
         f_body("loop", ks, WhoHasOf(M), ProcessingOf(M), StacksOf(M), waiting)
    /\ f_posted' = FALSE
    /\ f_done' = TRUE
    /\ UNCHANGED <<cls, status, exceptions_blame, _running, _timer, fin>>
    /\ UNCHANGED <<dkvars, waitvars, func, grouped, returned>>
    /\ UNCHANGED <<caller_thread, cpc, cb_failed>>

\* sync returns to the constructor once the signal is set.
ctor_sync_return ==
    /\ cpc = "in_sync" /\ f_done
    /\ cpc' = "reset"
    /\ UNCHANGED <<dkvars, trvars, waitvars, func, grouped, returned>>
    /\ UNCHANGED <<caller_thread, f_posted, f_done, f_threads, writes, cb_failed>>

\* self.status = None, the last statement of Progress.__init__.
ctor_reset_status ==
    /\ cpc = "reset"
    /\ status' = PyNone
    /\ writes' = writes \cup {<<caller_thread, "status">>}
    /\ cpc' = IF cls = "MultiProgress" THEN "set_func" ELSE "done"
    /\ UNCHANGED <<pc, cls, keys, all_keys, diagnostics, exceptions_blame, _running,
                   _timer, call, targets, closure0, presatisfied, fin>>
    /\ UNCHANGED <<dkvars, waitvars, func, grouped, returned>>
    /\ UNCHANGED <<caller_thread, f_posted, f_done, f_threads, cb_failed>>

\* MultiProgress.__init__: self.func = func
ctor_set_func(fn) ==
    /\ cpc = "set_func"
    /\ func' = fn
    /\ cpc' = "regroup_keys"
    /\ UNCHANGED <<dkvars, trvars, waitvars, grouped, returned>>
    /\ UNCHANGED <<caller_thread, f_posted, f_done, f_threads, writes, cb_failed>>

\* self.keys = valmap(set, groupby(self.func, self.keys))
ctor_regroup_keys ==
    /\ cpc = "regroup_keys"
    /\ keys' = Regroup(func, keys)
    /\ grouped' = grouped \cup {"keys"}
    /\ writes' = writes \cup {<<caller_thread, "keys">>}
    /\ cpc' = "regroup_all_keys"
    /\ UNCHANGED <<pc, cls, all_keys, status, diagnostics, exceptions_blame, _running,
                   _timer, call, targets, closure0, presatisfied, fin>>
    /\ UNCHANGED <<dkvars, waitvars, func, returned>>
    /\ UNCHANGED <<caller_thread, f_posted, f_done, f_threads, cb_failed>>

\* self.all_keys = valmap(set, groupby(self.func, self.all_keys))
ctor_regroup_all_keys ==
    /\ cpc = "regroup_all_keys"
    /\ all_keys' = Regroup(func, all_keys)
    /\ grouped' = grouped \cup {"all_keys"}
    /\ writes' = writes \cup {<<caller_thread, "all_keys">>}
    /\ cpc' = "done"
    /\ UNCHANGED <<pc, cls, keys, status, diagnostics, exceptions_blame, _running,
                   _timer, call, targets, closure0, presatisfied, fin>>
    /\ UNCHANGED <<dkvars, waitvars, func, returned>>
    /\ UNCHANGED <<caller_thread, f_posted, f_done, f_threads, cb_failed>>

\* A callback raises on the loop thread; the tracker is left as it was.
callback_raises(name) ==
    /\ cb_failed' = TRUE
    /\ call' = name
    /\ UNCHANGED <<pc, cls, keys, all_keys, status, diagnostics, exceptions_blame,
                   _running, _timer, targets, closure0, presatisfied, fin>>
    /\ UNCHANGED <<dkvars, waitvars, func, grouped, returned>>
    /\ UNCHANGED <<caller_thread, cpc, f_posted, f_done, f_threads, writes>>

\* A callback finds nothing to do.
callback_returns(name) ==
    /\ call' = name
    /\ UNCHANGED <<pc, cls, keys, all_keys, status, diagnostics, exceptions_blame,
                   _running, _timer, targets, closure0, presatisfied, fin>>
    /\ UNCHANGED <<dkvars, xvars>>

\* The scheduler reports a finished task to a registered Progress.
thr_task_finished(key) ==
    /\ LoopFree /\ cls = "Progress"
    /\ loop_task_finished(key)

\* The scheduler reports a failed task to a registered Progress.
thr_task_erred(key, exception) ==
    /\ LoopFree /\ cls = "Progress"
    /\ loop_task_erred(key, exception)

\* The scheduler reports a finished task to a registered MultiProgress:
\* self.func(key) raises AttributeError while func is not set, and
\* self.keys.get raises it while keys is still a set.
thr_mp_task_finished(key) ==
    /\ LoopFree /\ cls = "MultiProgress" /\ pc = "constructed"
    /\ "self" \in diagnostics
    /\ IF func = NoFunc \/ "keys" \notin grouped
         THEN callback_raises("task_finished")
         ELSE mp_task_finished(key)

\* The scheduler reports a failed task to a registered MultiProgress:
\* self.func(key) raises while func is not set; while all_keys is still a set
\* the label is looked up among the keys, and indexing the set raises.
thr_mp_task_erred(key, exception) ==
    /\ LoopFree /\ cls = "MultiProgress" /\ pc = "constructed"
    /\ "self" \in diagnostics
    /\ IF func = NoFunc
         THEN callback_raises("task_erred")
       ELSE IF "all_keys" \notin grouped
         THEN IF func[key] \in all_keys
                THEN callback_raises("task_erred")
                ELSE callback_returns("task_erred")
       ELSE mp_task_erred(key, exception)

\* A constructor call of either class from either thread has reached the
\* bridge; nothing is registered yet.
InitThreads ==
    /\ NoBareCall
    /\ pc = "new" /\ cls \in ThreadClasses /\ keys = {} /\ all_keys = {}
    /\ status = PyNone /\ diagnostics = {} /\ exceptions_blame = {}
    /\ _running = FALSE /\ _timer = "None"
    /\ call = "none" /\ targets = {} /\ closure0 = {} /\ presatisfied = FALSE
    /\ fin = [only |-> TRUE, F |-> {}]
    /\ wait = "found" /\ elapsed = 0 /\ dask = {} /\ in_play = {} /\ raised = {}
    /\ func = NoFunc /\ grouped = {} /\ returned = FALSE
    /\ caller_thread \in Threads /\ cpc = "bridge" /\ f_posted = FALSE /\ f_done = FALSE
    /\ f_threads = <<>> /\ writes = {} /\ cb_failed = FALSE

NextThreads ==
    \/ ctor_bridge_inline
    \/ ctor_bridge_dispatch
    \/ loop_run_f
    \/ ctor_sync_return
    \/ ctor_reset_status
    \/ \E fn \in LabelFuncs : ctor_set_func(fn)
    \/ ctor_regroup_keys
    \/ ctor_regroup_all_keys
    \/ \E key \in Keys : thr_task_finished(key)
    \/ \E key \in Keys, exception \in ErrorValues : thr_task_erred(key, exception)
    \/ \E key \in Keys : thr_mp_task_finished(key)
    \/ \E key \in Keys, exception \in ErrorValues : thr_mp_task_erred(key, exception)

SpecThreads == InitThreads /\ [][NextThreads]_vars

\* C15: f runs at most once and only on the loop thread, and exactly once
\* before the constructor is past the bridge; a constructor called on the
\* loop thread never dispatches nor waits (it cannot block the loop on
\* itself), one called elsewhere dispatches and is past the bridge only after
\* the signal that f is over.
C15_Bridge ==
    /\ Len(f_threads) <= 1
    /\ \A i \in 1..Len(f_threads) : f_threads[i] = "loop"
    /\ cpc \notin {"bridge", "in_sync"} => Len(f_threads) = 1
    /\ caller_thread = "loop" => (cpc # "in_sync" /\ ~f_posted /\ ~f_done)
    /\ (caller_thread = "other" /\ cpc \notin {"bridge", "in_sync"}) => f_done

\* A constructor called off the loop is past the bridge, f having run once
\* on the loop.
C15_Witness ==
    /\ caller_thread = "other" /\ cpc = "reset"
    /\ f_threads = <<"loop">> /\ f_done /\ "self" \in diagnostics

\* C16: once the plugin is registered, only the loop thread writes keys,
\* all_keys or status; the calling thread writes none of them.
C16_Original == \A w \in writes : w[1] = "loop"

\* C17: a terminal status that a callback sets while the constructor is
\* still running stays terminal: no later step of the constructor replaces it.
C17_Original ==
    [][(cpc \in {"in_sync", "reset", "set_func", "regroup_keys", "regroup_all_keys"}
         /\ status \in Terminal) => (status' \in Terminal)]_vars

\* Whether key is pending, in the set or in the buckets.
PendingHas(d, g, key) ==
    IF "keys" \in g THEN \E l \in DOMAIN d : key \in d[l] ELSE key \in d

\* C18: every task_finished callback delivered to a registered MultiProgress,
\* also one that arrives before func is set or keys are regrouped, runs
\* without raising and leaves the finished key out of the pending keys.
C18_Original ==
    [][\A key \in Keys : thr_mp_task_finished(key) =>
          (~cb_failed' /\ ~PendingHas(keys', grouped', key))]_vars

\* -------------------- a tracker driven by start and the callbacks only
NextNoStop ==
    \/ Construct
    \/ \E blame \in SUBSET Keys : start(blame)
    \/ \E key \in Keys : task_finished(key)
    \/ \E key \in Keys, exception \in ErrorValues : task_erred(key, exception)

SpecNoStop == Init /\ [][NextNoStop]_vars

\* C19: in every state reached through start, task_finished and task_erred
\* alone, a tracker whose status is 'finished' has no pending key.
C19_Original == (pc = "constructed" /\ status = "finished") => keys = {}

\* ------------- a tracker constructed and started while the scheduler runs
\* start(), called once the constructor has returned.
live_start(blame) ==
    /\ cpc = "done" /\ cls = "Progress"
    /\ start(blame)

\* The scheduler reports a key that is pending.
PendingReported == \E key \in Keys : key \in keys /\ thr_task_finished(key)

\* Progress is constructed, from either thread.
InitLive == InitThreads /\ cls = "Progress"

NextLive ==
    \/ ctor_bridge_inline
    \/ ctor_bridge_dispatch
    \/ loop_run_f
    \/ ctor_sync_return
    \/ ctor_reset_status
    \/ \E blame \in SUBSET Keys : live_start(blame)
    \/ \E key \in Keys : thr_task_finished(key)
    \/ \E key \in Keys, exception \in ErrorValues : thr_task_erred(key, exception)

\* The constructor runs to its end, start() is called, and the scheduler
\* goes on reporting pending keys as long as it has a registered plugin with
\* pending keys.
SpecLive ==
    /\ InitLive /\ [][NextLive]_vars
    /\ WF_vars(ctor_bridge_inline) /\ WF_vars(ctor_bridge_dispatch)
    /\ WF_vars(loop_run_f) /\ WF_vars(ctor_sync_return) /\ WF_vars(ctor_reset_status)
    /\ WF_vars(\E blame \in SUBSET Keys : live_start(blame))
    /\ WF_vars(PendingReported)

\* C20: a tracker constructed and started while the scheduler keeps running
\* and reporting to its registered plugins reaches status 'finished' or
\* 'error' and keeps a terminal status from then on.
C20_Original == <>[](status \in Terminal)

====
